---- MODULE Spec2Model ----
(***************************************************************************)
(* Model of the two structural engines of nnb/nn_model.py:                 *)
(*   RecursiveNeuralNetwork  (tree composition, lines 225-385)             *)
(*   RecurrentNeuralNetwork  (sequence recurrence, lines 618-715)          *)
(* Tensor values are symbolic terms, so that two values are equal exactly  *)
(* when they were computed the same way from the same inputs.  Node ids,   *)
(* time steps and Python indices are 0-based as in the source; TLA+        *)
(* sequences are 1-based, hence At(seq, i) == seq[i + 1].                  *)
(* theano.scan is modelled by its documented meaning: n_steps iterations   *)
(* of fn, n_steps being the length of the shortest sequence, the outputs   *)
(* of one iteration being the recurrent inputs of the next, the result     *)
(* being the per-output sequence of all iterations.                        *)
(***************************************************************************)
EXTENDS Integers, Sequences, FiniteSets, TLC

\* ---- bounds of the model ----
MaxLeaves == 2
MaxInternal == 2
MaxNodes == 4
MaxIllInternal == 1
MaxStreams == 2
MaxOut == 3
MaxParams == 1
MaxStates == 2
MaxSize == 2
MaxInputs == 2
MaxT == 2

VARIABLES
    \* RecursiveNeuralNetwork.apply
    pc,         \* "new", "ctor_error", "start", "scan", "done", "error"
    comp_kwargs,  \* the options the constructor was called with
    comp_options, \* self.options
    comp_params,  \* self.params: None until init_params has returned
    comp_tree,  \* inputs[0]: one row <<c0, c1>> per internal node
    x,          \* inputs[1:]: one sequence of leaf values per stream
    n_out,      \* number of outputs of comp_model.apply
    partials,   \* the scan's recurrent outputs: one buffer per stream
    i,          \* number of scan iterations done
    h,          \* scan result: per stream, the buffer after every iteration
    out,        \* the value apply returns
    err,        \* the exception that ended apply ("" when none)
    order,      \* history: the slot index written by each iteration
    calls       \* history: number of evaluations of comp_model.apply

VARIABLES
    \* RecurrentNeuralNetwork
    rpc,        \* "new", "ctor_error", "ready", "scan", "done", "error"
    kwargs,     \* the options the constructor was called with
    options,    \* self.options
    params,     \* self.params: None until init_params has returned
    inputs,     \* apply's argument: the input sequences
    states,     \* the scan's recurrent outputs
    t,          \* number of scan iterations done
    history,    \* scan result: per output, its value after every iteration
    result,     \* the value apply returns
    rerr,       \* the exception that ended the constructor or apply
    rcalls      \* history: number of evaluations of model.apply

treeVars == <<pc, comp_kwargs, comp_options, comp_params, comp_tree, x, n_out,
              partials, i, h, out, err, order, calls>>

rnnVars == <<rpc, kwargs, options, params, inputs, states, t, history, result,
             rerr, rcalls>>

vars == <<pc, comp_kwargs, comp_options, comp_params, comp_tree, x, n_out,
          partials, i, h, out, err, order, calls,
          rpc, kwargs, options, params, inputs, states, t, history, result,
          rerr, rcalls>>

\* ---- symbolic tensor values ----
Term(tag, v, arr, args) == [tag |-> tag, v |-> v, arr |-> arr, args |-> args]

\* T.alloc(0., ...): one zero-filled slot
Zero == Term("zero", 0, <<>>, <<>>)

\* the caller's value of leaf p of stream s
Leaf(s, p) == Term("leaf", s, <<p>>, <<>>)

At(seq, n) == seq[n + 1]

InRange(seq, n) == n >= 0 /\ n < Len(seq)

\* an assignment to the slice p[:index + 1] instead of the element p[index]
set_subtensor_slice(p, index, o) ==
    [q \in 1..Len(p) |-> IF q <= index + 1 THEN o ELSE p[q]]

\* T.set_subtensor(p[index], o)
set_subtensor(p, index, o) == [p EXCEPT ![index + 1] = o]

\* comp_model.apply(inputs): n outputs, each a function of all the inputs
ModelApply(n, ins) == [j \in 1..n |-> Term("apply", j, <<>>, ins)]

\* zip(a, b) stops at the shorter argument
ZipLen(a, b) == IF Len(a) < Len(b) THEN Len(a) ELSE Len(b)

\* the partial of one stream: zeros of length o.shape[0] + comp_tree.shape[0],
\* then the leaves in the first o.shape[0] slots
AllocPartial(o, tree) ==
    [p \in 1..(Len(o) + Len(tree)) |-> IF p <= Len(o) THEN o[p] ELSE Zero]

\* a scan that walks the tree rows from the last to the first
ScanIndexReversed(step) == Len(x[1]) + Len(comp_tree) - 1 - step

\* T.arange(x[0].shape[0], x[0].shape[0] + comp_tree.shape[0])[step]
ScanIndex(step) == Len(x[1]) + step

\* an input list grouped by stream: both children of stream 1, then both
\* children of stream 2, ...
GatherInputsByStream(children, ps) ==
    [a \in 1..(2 * Len(ps)) |->
        At(ps[(a + 1) \div 2], children[IF a % 2 = 1 THEN 1 ELSE 2])]

\* the input list one_step hands to comp_model: inputs1 + inputs2
GatherInputs(children, ps) ==
    [s \in 1..Len(ps) |-> At(ps[s], children[1])] \o
    [s \in 1..Len(ps) |-> At(ps[s], children[2])]

\* one_step(children, index, *partials)
one_step(children, index, ps) ==
    IF \E s \in 1..Len(ps) :
          ~InRange(ps[s], children[1]) \/ ~InRange(ps[s], children[2])
    THEN [err |-> "IndexError", called |-> FALSE, val |-> <<>>]
    ELSE LET model_out == ModelApply(n_out, GatherInputs(children, ps))
             n == ZipLen(ps, model_out)
         IN IF \E s \in 1..n : ~InRange(ps[s], index)
            THEN [err |-> "IndexError", called |-> TRUE, val |-> <<>>]
            ELSE [err |-> "", called |-> TRUE,
                  val |-> [s \in 1..n |->
                             set_subtensor(ps[s], index, model_out[s])]]

\* ---- inputs ----
ChildIds(L, I) == 0..(L + I - 1)

\* the tree of the class's docstring, over 4 leaves
DocTree == << <<1, 2>>, <<4, 3>>, <<0, 5>> >>
DocLeaves == 4

Streams(lens) == [s \in 1..Len(lens) |-> [p \in 1..lens[s] |-> Leaf(s, p)]]

TreeStart ==
    /\ pc = "start"
    /\ partials = <<>>
    /\ i = 0
    /\ h = <<>>
    /\ out = <<>>
    /\ err = ""
    /\ order = <<>>
    /\ calls = 0

\* Inputs of the shape the docstring requires (all streams of one extent, as
\* many model outputs as streams) over every tree matrix of up to MaxInternal
\* rows and MaxNodes nodes; inputs of any other shape over up to MaxIllInternal rows; and the
\* docstring's example.  Child ids range over all node ids of the tree, so
\* that self and forward references are among the inputs.
TreeInputs ==
    \/ \E k \in 1..MaxStreams, I \in 0..MaxInternal, L \in 1..MaxLeaves :
          /\ L + I <= MaxNodes
          /\ x = Streams([s \in 1..k |-> L])
          /\ comp_tree \in [1..I -> ChildIds(L, I) \X ChildIds(L, I)]
          /\ n_out = k
    \/ \E k \in 1..MaxStreams, I \in 0..MaxIllInternal, n \in 1..MaxOut :
          \E lens \in [1..k -> 1..MaxLeaves] :
             /\ n # k \/ \E s \in 1..k : lens[s] # lens[1]
             /\ x = Streams(lens)
             /\ comp_tree \in [1..I -> ChildIds(lens[1], I) \X ChildIds(lens[1], I)]
             /\ n_out = n
    \/ /\ x = Streams(<<DocLeaves>>)
       /\ comp_tree = DocTree
       /\ n_out = 1

\* ---- RecursiveNeuralNetwork.apply ----
\* lines 338-377: allocate the partials and enter the scan; scan refuses a
\* step function that returns fewer outputs than there are outputs_info
Apply ==
    /\ pc = "start"
    /\ partials' = [s \in 1..Len(x) |-> AllocPartial(x[s], comp_tree)]
    /\ h' = [s \in 1..Len(x) |-> <<>>]
    /\ IF ZipLen(x, ModelApply(n_out, <<>>)) # Len(x)
       THEN pc' = "error" /\ err' = "ValueError"
       ELSE pc' = "scan" /\ err' = err
    /\ UNCHANGED <<comp_tree, x, n_out, i, out, order, calls>>
    /\ UNCHANGED <<comp_kwargs, comp_options, comp_params>>
    /\ UNCHANGED rnnVars

\* one iteration of the scan over (comp_tree, arange)
ScanStep ==
    /\ pc = "scan"
    /\ i < Len(comp_tree)
    /\ LET r == one_step(comp_tree[i + 1], ScanIndex(i), partials)
       IN /\ calls' = IF r.called THEN calls + 1 ELSE calls
          /\ IF r.err # ""
             THEN /\ pc' = "error"
                  /\ err' = r.err
                  /\ UNCHANGED <<partials, h, i, order>>
             ELSE /\ partials' = r.val
                  /\ h' = [s \in 1..Len(h) |-> Append(h[s], r.val[s])]
                  /\ i' = i + 1
                  /\ order' = Append(order, ScanIndex(i))
                  /\ UNCHANGED <<pc, err>>
    /\ UNCHANGED <<comp_tree, x, n_out, out>>
    /\ UNCHANGED <<comp_kwargs, comp_options, comp_params>>
    /\ UNCHANGED rnnVars

\* lines 379-385: the last iteration's value of every output
Finish ==
    /\ pc = "scan"
    /\ i = Len(comp_tree)
    /\ IF \E s \in 1..Len(h) : Len(h[s]) = 0
       THEN pc' = "error" /\ err' = "IndexError" /\ out' = out
       ELSE pc' = "done" /\ err' = err
            /\ out' = [s \in 1..Len(h) |-> h[s][Len(h[s])]]
    /\ UNCHANGED <<comp_tree, x, n_out, partials, i, h, order, calls>>
    /\ UNCHANGED <<comp_kwargs, comp_options, comp_params>>
    /\ UNCHANGED rnnVars

\* ---- options and parameters ----
\* an option that is not set is None; a set option v is Some(v)
None == <<>>

Some(v) == <<v>>

\* theano.shared(name=..., value=...); a randomly drawn array is recorded by
\* its shape (init = "uniform"), any other array by its contents
Shared(name, idx, init, value) ==
    [name |-> name, idx |-> idx, init |-> init, value |-> value]

\* an array of ones where zeros are meant
np_ones(n) == [k \in 1..n |-> 1]

\* np.zeros(shape=(n,))
np_zeros(n) == [k \in 1..n |-> 0]

\* SimpleRecurrence(insize, outsize) with SimpleRecurrence.init_params
SimpleRecurrence(insize, outsize) ==
    [kind |-> "SimpleRecurrence", n_out |-> 1,
     insize |-> insize, outsize |-> outsize,
     params |-> << Shared("W", 0, "uniform", <<insize, outsize>>),
                   Shared("b", 0, "value", np_zeros(outsize)),
                   Shared("W_h", 0, "uniform", <<outsize, outsize>>) >>]

\* a caller's model with np parameters and n outputs
CustomModel(np, n) ==
    [kind |-> "custom", n_out |-> n, insize |-> 0, outsize |-> 0,
     params |-> [k \in 1..np |-> Shared("theta", k, "value", <<k>>)]]

\* model.apply(inputs): SimpleRecurrence reads inputs[0] and inputs[1] only
RecApply(model, args) ==
    IF model.kind = "SimpleRecurrence"
    THEN << Term("SimpleRecurrence", 1, <<>>, SubSeq(args, 1, 2)) >>
    ELSE ModelApply(model.n_out, args)

Raise(e, opts) == [err |-> e, params |-> <<>>, options |-> opts]

\* a constructor that takes a missing h0 for an empty list of states and
\* missing sizes for size 1
init_params_lenient(opts) ==
    IF opts.model = None
    THEN LET insize == IF opts.insize = None THEN 1 ELSE opts.insize[1]
             outsize == IF opts.outsize = None THEN 1 ELSE opts.outsize[1]
             h0 == IF opts.h0 = None THEN np_zeros(outsize)
                   ELSE opts.h0[1].arrs[1]
             model == SimpleRecurrence(insize, outsize)
         IN [err |-> "",
             params |-> <<Shared("h0", 0, "value", h0)>> \o model.params,
             options |-> [opts EXCEPT !.model = Some(model)]]
    ELSE LET arrs == IF opts.h0 = None THEN <<>> ELSE opts.h0[1].arrs
             h0 == IF opts.h0 # None /\ ~opts.h0[1].isList
                   THEN <<Shared("h0", 0, "value", arrs[1])>>
                   ELSE [k \in 1..Len(arrs) |->
                           Shared("h0_", k - 1, "value", arrs[k])]
         IN [err |-> "",
             params |-> h0 \o opts.model[1].params,
             options |-> opts]

\* RecurrentNeuralNetwork.init_params
init_params(opts) ==
    IF opts.model = None
    THEN IF opts.insize = None \/ opts.outsize = None
         THEN Raise("ValueError", opts)
         ELSE LET h0 == IF opts.h0 = None
                        THEN np_zeros(opts.outsize[1])
                        ELSE opts.h0[1].arrs[1]
                  model == SimpleRecurrence(opts.insize[1], opts.outsize[1])
              IN [err |-> "",
                  params |-> <<Shared("h0", 0, "value", h0)>> \o model.params,
                  options |-> [opts EXCEPT !.model = Some(model)]]
    ELSE IF opts.h0 = None
         THEN Raise("ValueError", opts)
         ELSE LET g == opts.h0[1]
                  h0 == IF ~g.isList
                        THEN <<Shared("h0", 0, "value", g.arrs[1])>>
                        ELSE [k \in 1..Len(g.arrs) |->
                                Shared("h0_", k - 1, "value", g.arrs[k])]
              IN [err |-> "",
                  params |-> h0 \o opts.model[1].params,
                  options |-> opts]

\* the slice self.params[:-len(model.params)], which is empty for a model
\* without parameters
InitialStatesNegativeSlice(ps, model) ==
    IF Len(model.params) = 0 THEN <<>>
    ELSE SubSeq(ps, 1, Len(ps) - Len(model.params))

\* self.params[:len(self.params) - len(model.params)]
InitialStates(ps, model) == SubSeq(ps, 1, Len(ps) - Len(model.params))

\* the value of a shared variable inside the computation
StateValue(p) == Term("shared", 0, p.value, <<>>)

Min(a, b) == IF a < b THEN a ELSE b

RECURSIVE MinLen(_)
\* scan runs for the length of its shortest sequence
MinLen(seqs) ==
    IF Len(seqs) = 1 THEN Len(seqs[1])
    ELSE Min(Len(seqs[1]), MinLen(Tail(seqs)))

\* a step function that is handed the recurrent outputs before the sequences
StepArgsStatesFirst(seqs, n, sts) ==
    sts \o [q \in 1..Len(seqs) |-> At(seqs[q], n)]

\* the arguments scan hands to one_step: the sequences' elements of this
\* iteration, then the recurrent outputs of the previous one
StepArgs(seqs, n, sts) == [q \in 1..Len(seqs) |-> At(seqs[q], n)] \o sts

\* a scan result that starts with the initial value of every recurrent output
ScanOutputsWithInitial(n, sts) ==
    [s \in 1..n |-> IF s <= Len(sts) THEN <<sts[s]>> ELSE <<>>]

\* the result of a scan before its first iteration: n empty sequences
ScanOutputs(n, sts) == [s \in 1..n |-> <<>>]

\* ---- inputs ----
Arrays == {<<1>>, <<2, 3>>}

ArrayLists == UNION {[1..n -> Arrays] : n \in 0..MaxStates}

\* h0 is an ndarray or a list of ndarrays
H0Values ==
    {[isList |-> FALSE, arrs |-> <<a>>] : a \in Arrays} \cup
    {[isList |-> TRUE, arrs |-> l] : l \in ArrayLists}

Sizes == {None} \cup {Some(n) : n \in 1..MaxSize}

Models == {CustomModel(np, n) : np \in 0..MaxParams, n \in 1..MaxOut}

\* the constructor's keyword arguments; a list-valued h0 is given with a
\* model, the default recurrence has a single state
Kwargs ==
    {o \in [model : {None} \cup {Some(m) : m \in Models},
            h0 : {None} \cup {Some(v) : v \in H0Values},
            insize : Sizes, outsize : Sizes] :
        o.model = None /\ o.h0 # None => ~o.h0[1].isList}

\* element t of input sequence q
Elem(q, n) == Term("x", q, <<n>>, <<>>)

InputSeqs(lens) == [q \in 1..Len(lens) |-> [n \in 1..lens[q] |-> Elem(q, n - 1)]]

RnnStart ==
    /\ rpc = "new"
    /\ options = kwargs
    /\ params = None
    /\ inputs = <<>>
    /\ states = <<>>
    /\ t = 0
    /\ history = <<>>
    /\ result = <<>>
    /\ rerr = ""
    /\ rcalls = 0

\* ---- RecurrentNeuralNetwork ----
\* construction: self.params = self.init_params()
Construct ==
    /\ rpc = "new"
    /\ LET r == init_params(options)
       IN IF r.err # ""
          THEN /\ rpc' = "ctor_error"
               /\ rerr' = r.err
               /\ UNCHANGED <<options, params>>
          ELSE /\ rpc' = "ready"
               /\ params' = Some(r.params)
               /\ options' = r.options
               /\ rerr' = rerr
    /\ UNCHANGED <<kwargs, inputs, states, t, history, result, rcalls>>
    /\ UNCHANGED treeVars

\* lines 699-710: recover h0 and enter the scan; with outputs_info given,
\* scan refuses a step function returning another number of outputs
RnnApply ==
    /\ rpc = "ready"
    /\ \E m \in 1..MaxInputs : \E lens \in [1..m -> 0..MaxT] :
          inputs' = InputSeqs(lens)
    /\ LET model == options.model[1]
           h0 == InitialStates(params[1], model)
           n == model.n_out
       IN /\ states' = [s \in 1..Len(h0) |-> StateValue(h0[s])]
          /\ history' = ScanOutputs(n, [s \in 1..Len(h0) |-> StateValue(h0[s])])
          /\ IF Len(h0) # 0 /\ n # Len(h0)
             THEN rpc' = "error" /\ rerr' = "ValueError"
             ELSE rpc' = "scan" /\ rerr' = rerr
    /\ UNCHANGED <<kwargs, options, params, t, result, rcalls>>
    /\ UNCHANGED treeVars

\* one iteration of the scan: one_step(*args)
RnnStep ==
    /\ rpc = "scan"
    /\ t < MinLen(inputs)
    /\ LET args == StepArgs(inputs, t, states)
           o == RecApply(options.model[1], args)
       IN /\ states' = IF Len(states) = 0 THEN states ELSE o
          /\ history' = [s \in 1..Len(history) |-> Append(history[s], o[s])]
    /\ t' = t + 1
    /\ rcalls' = rcalls + 1
    /\ UNCHANGED <<rpc, kwargs, options, params, inputs, result, rerr>>
    /\ UNCHANGED treeVars

\* lines 712-715
RnnFinish ==
    /\ rpc = "scan"
    /\ t = MinLen(inputs)
    /\ rpc' = "done"
    /\ result' = history
    /\ UNCHANGED <<kwargs, options, params, inputs, states, t, history, rerr,
                   rcalls>>
    /\ UNCHANGED treeVars

\* ---- RecursiveNeuralNetwork: construction ----
\* nnb.ConcatenationModel(axis=0) | PerceptronLayer(insize=word_dim * 2,
\* outsize=word_dim): one output, the parameters W and b of the layer
DefaultComposition(word_dim) ==
    [kind |-> "concatenation|perceptron", n_out |-> 1,
     insize |-> word_dim * 2, outsize |-> word_dim,
     params |-> << Shared("W", 0, "uniform", <<word_dim * 2, word_dim>>),
                   Shared("b", 0, "value", np_zeros(word_dim)) >>]

\* RecursiveNeuralNetwork.init_params; the module imports `warnings`, so the
\* name `warning` of line 320 is unbound when both options are set
comp_init_params(opts) ==
    IF opts.comp_model # None /\ opts.insize # None
    THEN Raise("NameError", opts)
    ELSE IF opts.comp_model = None
         THEN IF opts.insize = None
              THEN Raise("ValueError", opts)
              ELSE LET comp_model == DefaultComposition(opts.insize[1])
                   IN [err |-> "",
                       params |-> comp_model.params,
                       options |-> [opts EXCEPT !.comp_model = Some(comp_model)]]
         ELSE [err |-> "",
               params |-> opts.comp_model[1].params,
               options |-> opts]

CompKwargs ==
    [comp_model : {None} \cup {Some(m) : m \in Models}, insize : Sizes]

\* construction: self.params = self.init_params(); from then on apply uses
\* the comp_model of the options
CompConstruct ==
    /\ pc = "new"
    /\ LET r == comp_init_params(comp_options)
       IN IF r.err # ""
          THEN /\ pc' = "ctor_error"
               /\ err' = r.err
               /\ UNCHANGED <<comp_options, comp_params, n_out>>
          ELSE /\ pc' = "start"
               /\ comp_params' = Some(r.params)
               /\ comp_options' = r.options
               /\ n_out' = r.options.comp_model[1].n_out
               /\ err' = err
    /\ UNCHANGED <<comp_kwargs, comp_tree, x, partials, i, h, out, order, calls>>
    /\ UNCHANGED rnnVars

\* ---- specifications ----
\* an engine built around a caller's comp_model with n outputs
CompBuilt(n) ==
    /\ comp_kwargs = [comp_model |-> Some(CustomModel(0, n)), insize |-> None]
    /\ comp_options = comp_kwargs
    /\ comp_params = Some(<<>>)

\* an engine that is not under study stays as constructed
TreeIdle == TreeStart /\ x = <<>> /\ comp_tree = <<>> /\ n_out = 1 /\ CompBuilt(1)

RnnIdle == kwargs = [model |-> None, h0 |-> None,
                     insize |-> None, outsize |-> None] /\ RnnStart

TreeInit == TreeStart /\ TreeInputs /\ CompBuilt(n_out) /\ RnnIdle

TreeNext == Apply \/ ScanStep \/ Finish

SpecTree == TreeInit /\ [][TreeNext]_vars

RnnInit == kwargs \in Kwargs /\ RnnStart /\ TreeIdle

RnnNext == Construct \/ RnnApply \/ RnnStep \/ RnnFinish

SpecRnn == RnnInit /\ [][RnnNext]_vars

\* construction of a RecursiveNeuralNetwork from every combination of its
\* two options, followed by one apply
CompInit ==
    /\ comp_kwargs \in CompKwargs
    /\ comp_options = comp_kwargs
    /\ comp_params = None
    /\ pc = "new"
    /\ n_out = 0
    /\ \E k \in 1..MaxStreams, I \in 0..MaxIllInternal :
          \E lens \in [1..k -> 1..MaxLeaves] :
             /\ x = Streams(lens)
             /\ comp_tree \in [1..I -> ChildIds(lens[1], I) \X ChildIds(lens[1], I)]
    /\ partials = <<>>
    /\ i = 0
    /\ h = <<>>
    /\ out = <<>>
    /\ err = ""
    /\ order = <<>>
    /\ calls = 0
    /\ RnnIdle

CompNext == CompConstruct \/ Apply \/ ScanStep \/ Finish

SpecComp == CompInit /\ [][CompNext]_vars

\* ---- properties of RecursiveNeuralNetwork.apply (under SpecTree) ----
LeafCount == Len(x[1])

InternalCount == Len(comp_tree)

Terminated == pc \in {"done", "error"}

\* all leaf streams have the leading extent of the first
EqualExtents == \A s \in 1..Len(x) : Len(x[s]) = LeafCount

\* every child id of row r is smaller than the id of the row's node
WellFormedTree ==
    \A r \in 1..InternalCount :
        /\ comp_tree[r][1] < LeafCount + r - 1
        /\ comp_tree[r][2] < LeafCount + r - 1

RECURSIVE NodeValue(_, _)
\* the value of node n in stream s, by recursion over a well-formed tree
NodeValue(s, n) ==
    IF n < LeafCount THEN At(x[s], n)
    ELSE LET row == comp_tree[n - LeafCount + 1]
             ch == [a \in 1..(2 * Len(x)) |->
                      IF a <= Len(x) THEN NodeValue(a, row[1])
                      ELSE NodeValue(a - Len(x), row[2])]
         IN Term("apply", s, <<>>, ch)

\* C1: for every tree with L >= 1 leaves and I >= 0 internal nodes (zero rows
\* included), apply returns for every leaf stream a buffer of exactly L + I
\* entries whose first L entries are the caller's leaf values.
C1_LeafIdentity ==
    (Terminated /\ EqualExtents /\ n_out = Len(x)) =>
        /\ pc = "done"
        /\ Len(out) = Len(x)
        /\ \A s \in 1..Len(x) :
              /\ Len(out[s]) = LeafCount + InternalCount
              /\ SubSeq(out[s], 1, LeafCount) = x[s]

\* C2: over a well-formed tree the internal nodes are evaluated in the order
\* L, L+1, ..., L+I-1, and the returned value of every internal node is the
\* composition model applied to the returned values of its children, none of
\* which is a zero-filled placeholder.
C2_FreshChildren ==
    (pc = "done" /\ WellFormedTree /\ EqualExtents) =>
        /\ order = [r \in 1..InternalCount |-> LeafCount + r - 1]
        /\ \A r \in 1..InternalCount :
              LET ins == [a \in 1..(2 * Len(out)) |->
                            IF a <= Len(out)
                            THEN At(out[a], comp_tree[r][1])
                            ELSE At(out[a - Len(out)], comp_tree[r][2])]
              IN /\ \A a \in 1..Len(ins) : ins[a] # Zero
                 /\ \A s \in 1..Len(out) :
                       /\ At(out[s], LeafCount + r - 1)
                             = Term("apply", s, <<>>, ins)
                       /\ At(out[s], LeafCount + r - 1)
                             = NodeValue(s, LeafCount + r - 1)

\* the docstring's tree has been evaluated: nodes 4, 5, 6 in this order, and
\* node 6 was computed from the value node 5 has in the result
C2_Witness ==
    /\ pc = "done"
    /\ comp_tree = DocTree
    /\ order = <<4, 5, 6>>
    /\ At(out[1], 6).args = <<At(out[1], 0), At(out[1], 5)>>
    /\ At(out[1], 5).tag = "apply"

\* C3: when a row references a child id >= its own node id, apply raises
\* before any internal node is evaluated and returns no buffer.
C3_MalformedRaises ==
    ~WellFormedTree => (calls = 0 /\ pc # "done")

\* C4: when the composition model's number of outputs differs from the number
\* of leaf streams, the engine raises before any node is processed; surplus
\* outputs are never silently dropped.
C4_ArityRaises ==
    n_out # Len(x) => (calls = 0 /\ pc # "done")

\* C8: when the leaf streams disagree in their leading extent, apply raises
\* before any internal node is evaluated and returns no buffer.
C8_ExtentRaises ==
    ~EqualExtents => (calls = 0 /\ pc # "done")

\* ---- the scan of RecursiveNeuralNetwork.apply, step by step (under SpecTree) ----
\* number of completed scan iterations
StepsDone == IF pc = "start" THEN 0 ELSE Len(h[1])

\* the buffer of stream s before iteration r (r = 1 is the first)
BufferBefore(s, r) ==
    IF r = 1
    THEN [p \in 1..(Len(x[s]) + InternalCount) |->
            IF p <= Len(x[s]) THEN x[s][p] ELSE Zero]
    ELSE h[s][r - 1]

\* the last completed iteration, if any; every iteration of a run is the
\* last completed one in the state it leads to
LastStep == {StepsDone} \ {0}

\* the input list the value written by iteration r was computed from
InputsOfStep(r) == At(h[1][r], LeafCount + r - 1).args

\* C12 as stated: with k >= 2 streams the model's input list groups by stream
\* first: [s1[c0], s1[c1], s2[c0], s2[c1], ...].
C12_StreamFirst ==
    Len(x) >= 2 =>
        \A r \in LastStep :
            InputsOfStep(r) =
                [a \in 1..(2 * Len(x)) |->
                    At(BufferBefore((a + 1) \div 2, r),
                       comp_tree[r][IF a % 2 = 1 THEN 1 ELSE 2])]

\* C12 amended: with k >= 2 streams the model's input list groups by child
\* position first: every stream's value of the first child, then every
\* stream's value of the second child, [s1[c0], s2[c0], ..., s1[c1], s2[c1], ...].
C12_ChildFirst ==
    Len(x) >= 2 =>
        \A r \in LastStep :
            InputsOfStep(r) =
                [a \in 1..(2 * Len(x)) |->
                    IF a <= Len(x)
                    THEN At(BufferBefore(a, r), comp_tree[r][1])
                    ELSE At(BufferBefore(a - Len(x), r), comp_tree[r][2])]

\* two streams have been composed over two rows, the second row naming two
\* different children
C12_Witness ==
    /\ pc = "done"
    /\ Len(x) = 2
    /\ StepsDone = 2
    /\ comp_tree[2][1] # comp_tree[2][2]
    /\ InputsOfStep(2)[2] = At(h[2][1], comp_tree[2][1])

\* C13: over a tree with L leaves in every stream, iteration i writes slot
\* L + i of every stream's buffer and leaves every other slot as it was; the
\* internal slots are written once each in increasing order and no leaf slot
\* is overwritten, whatever the child ids are.
C13_Frame ==
    EqualExtents =>
        /\ pc # "start" => order = [r \in 1..StepsDone |-> LeafCount + r - 1]
        /\ \A r \in LastStep : \A s \in 1..Len(x) :
              LET before == BufferBefore(s, r)
                  after == h[s][r]
                  written == LeafCount + r - 1
              IN /\ Len(after) = LeafCount + InternalCount
                 /\ At(after, written).tag = "apply"
                 /\ At(after, written).v = s
                 /\ \A slot \in 0..(LeafCount + InternalCount - 1) :
                       /\ slot # written => At(after, slot) = At(before, slot)
                       /\ slot < LeafCount => At(after, slot) = At(x[s], slot)
                       /\ slot > written => At(after, slot) = Zero
        /\ pc = "done" => \A s \in 1..Len(x) :
              /\ out[s] = h[s][InternalCount]
              /\ partials[s] = out[s]

\* two streams over a malformed tree of two rows have been evaluated
C13_Witness ==
    /\ pc = "done"
    /\ EqualExtents
    /\ ~WellFormedTree
    /\ Len(x) = 2
    /\ order = <<LeafCount, LeafCount + 1>>

\* ---- properties of RecurrentNeuralNetwork (under SpecRnn) ----
Applied == rpc \in {"scan", "done", "error"}

EqualLengths == \A q \in 1..Len(inputs) : Len(inputs[q]) = Len(inputs[1])

\* the child model and the initial states the constructor's arguments denote
GivenModel ==
    IF kwargs.model = None
    THEN SimpleRecurrence(kwargs.insize[1], kwargs.outsize[1])
    ELSE kwargs.model[1]

GivenStates ==
    IF kwargs.h0 = None
    THEN << Term("shared", 0, [k \in 1..kwargs.outsize[1] |-> 0], <<>>) >>
    ELSE [s \in 1..Len(kwargs.h0[1].arrs) |->
            Term("shared", 0, kwargs.h0[1].arrs[s], <<>>)]

\* C5: with input sequences of one length T > 0, every returned history has
\* exactly T entries, and entry t of history s is output s of the child model
\* applied to the inputs' elements at t followed by the states after step
\* t - 1 (the initial states when t = 0).
C5_History ==
    (rpc = "done" /\ EqualLengths /\ Len(inputs[1]) > 0) =>
        \A s \in 1..Len(result) :
            /\ Len(result[s]) = Len(inputs[1])
            /\ \A n \in 0..(Len(inputs[1]) - 1) :
                  LET xs == [q \in 1..Len(inputs) |-> Elem(q, n)]
                      prev == IF n = 0 THEN GivenStates
                              ELSE [j \in 1..Len(GivenStates) |->
                                      At(result[j], n - 1)]
                  IN At(result[s], n) = RecApply(GivenModel, xs \o prev)[s]

\* two state streams have been threaded through two steps of two sequences
C5_Witness ==
    /\ rpc = "done"
    /\ Len(inputs) = 2
    /\ EqualLengths
    /\ Len(inputs[1]) = 2
    /\ Len(result) = 2
    /\ Len(GivenStates) = 2
    /\ At(result[2], 1).args[3] = At(result[1], 0)

C7_LengthMismatch ==
    (Applied /\ ~EqualLengths) => (rcalls = 0 /\ rpc # "done")

\* C9: constructing with a model but no h0, or with no model and not both
\* sizes, raises ValueError and yields no parameter list, so that no step is
\* ever applied.
C9_MissingInitialState ==
    (\/ kwargs.model # None /\ kwargs.h0 = None
     \/ kwargs.model = None /\ (kwargs.insize = None \/ kwargs.outsize = None))
    => /\ rpc \in {"new", "ctor_error"}
       /\ rpc = "ctor_error" => rerr = "ValueError"
       /\ params = None
       /\ rcalls = 0

\* the constructor has refused a model given without an initial state
C9_Witness ==
    /\ rpc = "ctor_error"
    /\ kwargs.model # None
    /\ kwargs.h0 = None

\* C10: constructing with only insize and outsize gives one state stream
\* whose initial state is outsize zeros, stores SimpleRecurrence(insize,
\* outsize) into the 'model' option, and apply on one input sequence of
\* length T returns one history of length T.
C10_DefaultModel ==
    (/\ kwargs.model = None /\ kwargs.h0 = None
     /\ kwargs.insize # None /\ kwargs.outsize # None
     /\ rpc # "new")
    => /\ rpc \notin {"ctor_error", "error"}
       /\ options.model = Some(SimpleRecurrence(kwargs.insize[1],
                                                kwargs.outsize[1]))
       /\ Len(params[1]) = 1 + Len(options.model[1].params)
       /\ params[1][1].value = [k \in 1..kwargs.outsize[1] |-> 0]
       /\ Len(params[1][1].value) = kwargs.outsize[1]
       /\ Applied => Len(states) = 1
       /\ (rpc = "done" /\ Len(inputs) = 1) =>
              /\ Len(result) = 1
              /\ Len(result[1]) = Len(inputs[1])

\* the default recurrence has run over one sequence of two elements
C10_Witness ==
    /\ rpc = "done"
    /\ kwargs.model = None
    /\ kwargs.h0 = None
    /\ Len(inputs) = 1
    /\ Len(inputs[1]) = 2
    /\ Len(result[1]) = 2

\* the arrays a caller's h0 stands for: the array itself, or the list's arrays
GivenArrays == kwargs.h0[1].arrs

\* C14: with a caller's model, a non-list h0 becomes one state stream and a
\* list of n arrays becomes n state streams in the list's order; the
\* parameter list is these states followed by the model's parameters in
\* order, and every apply recovers exactly these initial states from it,
\* also when the model has no parameters.
C14_StatePrefix ==
    (kwargs.model # None /\ kwargs.h0 # None /\ rpc # "new") =>
        LET n == IF kwargs.h0[1].isList THEN Len(GivenArrays) ELSE 1
            model == kwargs.model[1]
        IN /\ rpc # "ctor_error"
           /\ options = kwargs
           /\ Len(params[1]) = n + Len(model.params)
           /\ \A k \in 1..n : params[1][k].value = GivenArrays[k]
           /\ \A k \in 1..Len(model.params) : params[1][n + k] = model.params[k]
           /\ (Applied /\ t = 0) =>
                 /\ Len(states) = n
                 /\ \A k \in 1..n :
                       states[k] = Term("shared", 0, GivenArrays[k], <<>>)

\* an engine around a model without parameters has recovered the two states
\* of its list-valued h0, in the list's order
C14_Witness ==
    /\ rpc = "scan"
    /\ t = 0
    /\ kwargs.model # None
    /\ Len(kwargs.model[1].params) = 0
    /\ kwargs.h0 # None
    /\ kwargs.h0[1].isList
    /\ GivenArrays = << <<2, 3>>, <<1>> >>
    /\ states = << Term("shared", 0, <<2, 3>>, <<>>),
                   Term("shared", 0, <<1>>, <<>>) >>

\* ---- properties of RecursiveNeuralNetwork's construction (under SpecComp) ----
\* C11: constructing with both 'insize' and 'comp_model' succeeds, ignores
\* insize and uses exactly the given comp_model and its parameters;
\* constructing with neither raises ValueError; constructing with only insize
\* builds the concatenation + PerceptronLayer(2 * insize -> insize) default.
C11_CompOptions ==
    pc # "new" =>
        /\ comp_kwargs.comp_model # None =>
              /\ pc # "ctor_error"
              /\ comp_options.comp_model = comp_kwargs.comp_model
              /\ comp_params = Some(comp_kwargs.comp_model[1].params)
        /\ (comp_kwargs.comp_model = None /\ comp_kwargs.insize = None) =>
              /\ pc = "ctor_error"
              /\ err = "ValueError"
              /\ comp_params = None
        /\ (comp_kwargs.comp_model = None /\ comp_kwargs.insize # None) =>
              /\ pc # "ctor_error"
              /\ comp_options.comp_model[1].kind = "concatenation|perceptron"
              /\ comp_options.comp_model[1].insize = 2 * comp_kwargs.insize[1]
              /\ comp_options.comp_model[1].outsize = comp_kwargs.insize[1]
              /\ comp_params = Some(comp_options.comp_model[1].params)

====
